---- MODULE Spec2Model ----
(***************************************************************************)
(* Model of the agent automation step                                      *)
(*   packages/server/src/automations/steps/ai/agent.ts                     *)
(* run() is modelled as a state machine with one position per suspension   *)
(* point (await); buildAgentDecisionLog is modelled as a pure operator.    *)
(* Collaborators (agent store, model-config store, tracer, model backend)  *)
(* are the environment: each call either answers with a value drawn from a *)
(* small set or throws.                                                    *)
(***************************************************************************)
EXTENDS Integers, Sequences, FiniteSets, TLC

VARIABLES
    frame,        \* per invocation: position, parameters and locals of run()
    span,         \* per invocation: the llmobs span given to the callback
    calls,        \* per invocation: collaborator calls made, in order
    trail,        \* per invocation: which call threw, which annotations threw,
                  \* the live flag of the agent the store answered with; for
                  \* the pair also the answers given and who had returned
                  \* when the invocation was called
    nextSession,  \* source of fresh uuids (v4)
    probe,        \* arguments and result of a direct call of buildAgentDecisionLog
    world         \* what the collaborators may answer: "any" of the model's
                  \* values, or the few values of the "pair" of interleaved
                  \* invocations, whose answers are recorded in trail

vars == <<frame, span, calls, trail, nextSession, probe, world>>

----------------------------------------------------------------------------
(* Bounds of the model *)

NumInv == 2          \* invocation slots of the host engine
MaxSessions == 2     \* uuids drawn before the model stops starting invocations
MaxTools == 2        \* length of the list getAvailableToolsMetadata answers
MaxScript == 1       \* length of the backend's scripted tool-call cycle
MaxParts == 3        \* length of the part lists buildAgentDecisionLog is fed

Inv == 1..NumInv

----------------------------------------------------------------------------
(* Optional values: undefined is the empty set, a value v is {v} *)

None == {}
Some(v) == {v}
IsSome(o) == o # {}
The(o) == CHOOSE v \in o : TRUE

(* JavaScript strings that may be undefined; both "" and undefined are falsy *)
UndefStr == "<undefined>"
Truthy(s) == s \notin {"", UndefStr}

----------------------------------------------------------------------------
(* Message parts.  A part is an untyped value: it may be null or a          *)
(* primitive (isObject = FALSE); its "type" and "toolName" properties may   *)
(* be absent (None) or hold a value that is a string or not.  The text of a *)
(* type is a tuple of characters so that startsWith is computed.            *)

Str(x) == [kind |-> "string", val |-> x]
NumT == [kind |-> "number", val |-> <<>>]     \* a non-string type
NumN == [kind |-> "number", val |-> ""]       \* a non-string toolName

ToolPrefix == <<"t", "o", "o", "l", "-">>
DynamicTool == <<"d", "y", "n", "a", "m", "i", "c", "-", "t", "o", "o", "l">>
TextType == <<"t", "e", "x", "t">>
ToolNoDash == <<"t", "o", "o", "l">>
ToolStatic == ToolPrefix \o <<"x">>

startsWith(s, prefix) ==
    /\ Len(s) >= Len(prefix)
    /\ SubSeq(s, 1, Len(prefix)) = prefix

Part(t, n) == [isObject |-> TRUE, type |-> t, toolName |-> n]
NullPart == [isObject |-> FALSE, type |-> None, toolName |-> None]
TextPart == Part(Some(Str(TextType)), None)
ToolPart(name) == Part(Some(Str(DynamicTool)), Some(Str(name)))
StaticToolPart(name) == Part(Some(Str(ToolStatic)), Some(Str(name)))

(* new Map<string, number>(): the entries in insertion order *)
MapHas(m, k) == \E j \in 1..Len(m) : m[j].name = k
MapGet(m, k) ==
    IF MapHas(m, k)
    THEN Some((m[CHOOSE j \in 1..Len(m) : m[j].name = k]).count)
    ELSE None
(* Map.set that never finds the key *)
MapSetAppending(m, k, v) == Append(m, [name |-> k, count |-> v])
MapSet(m, k, v) ==
    IF MapHas(m, k)
    THEN [j \in 1..Len(m) |-> IF m[j].name = k THEN [name |-> k, count |-> v] ELSE m[j]]
    ELSE Append(m, [name |-> k, count |-> v])

(* agent.ts 40-41: the type of a part, undefined unless it is an object with a type *)
partTypeOf(part) == IF part.isObject THEN part.type ELSE None

(* the type test without its "dynamic-tool" alternative *)
isToolTypePrefixOnly(partType) ==
    /\ IsSome(partType)
    /\ The(partType).kind = "string"
    /\ startsWith(The(partType).val, ToolPrefix)

(* agent.ts 42-45 *)
isToolType(partType) ==
    /\ IsSome(partType)
    /\ The(partType).kind = "string"
    /\ (startsWith(The(partType).val, ToolPrefix) \/ The(partType).val = DynamicTool)

(* agent.ts 46-49: the tool name of a part, undefined unless it is a string *)
toolNameOf(part) ==
    IF IsSome(part.toolName) /\ The(part.toolName).kind = "string"
    THEN Some(The(part.toolName).val)
    ELSE None

(* agent.ts 42-54: the body of the loop over the parts, for one part *)
countPart(m, part) ==
    IF isToolType(partTypeOf(part))
    THEN LET toolName == toolNameOf(part)
         IN  IF ~IsSome(toolName) \/ The(toolName) = ""
             THEN m
             ELSE LET old == MapGet(m, The(toolName))
                  IN  MapSet(m, The(toolName), (IF IsSome(old) THEN The(old) ELSE 0) + 1)
    ELSE m

(* agent.ts 39-55: the loop; the map is evaluated after each part *)
RECURSIVE countParts(_, _)
countParts(m, parts) ==
    IF parts = <<>> THEN m
    ELSE LET next == countPart(m, Head(parts))
         IN  IF Len(next) = 0
             THEN countParts(<<>>, Tail(parts))
             ELSE countParts(next, Tail(parts))

(* agent.ts 39: assistantMessage?.parts || [] *)
partsOf(assistantMessage) ==
    IF IsSome(assistantMessage) /\ IsSome(The(assistantMessage).parts)
    THEN The(The(assistantMessage).parts)
    ELSE <<>>

(* the Map made once for the module instead of once per call: it still     *)
(* holds the counts of an invocation that has returned                      *)
toolCallCountsInModuleMap(assistantMessage) ==
    LET left == {k \in DOMAIN frame :
                    /\ frame[k].pc = "done"
                    /\ The(frame[k].outcome).agentTrace # None
                    /\ The(The(frame[k].outcome).agentTrace).usedTools # None}
    IN  IF left = {}
        THEN countParts(<<>>, partsOf(assistantMessage))
        ELSE countParts(
                 The(The(The(frame[CHOOSE k \in left : TRUE].outcome).agentTrace).usedTools),
                 partsOf(assistantMessage))

(* agent.ts 38-62 *)
toolCallCounts(assistantMessage) == countParts(<<>>, partsOf(assistantMessage))

(* agent.ts 66 *)
usedToolsOf(counts) == IF Len(counts) > 0 THEN Some(counts) ELSE None

(* modelOf looking at the model id alone *)
modelOfIdOnly(modelId, modelName, baseUrl) ==
    IF Truthy(modelId)
    THEN Some([id |-> modelId, name |-> modelName, baseUrl |-> baseUrl])
    ELSE None

(* agent.ts 67-74 *)
modelOf(modelId, modelName, baseUrl) ==
    IF Truthy(modelId) \/ Truthy(modelName) \/ Truthy(baseUrl)
    THEN Some([id |-> modelId, name |-> modelName, baseUrl |-> baseUrl])
    ELSE None

buildAgentDecisionLog(enabledTools, assistantMessage, modelId, modelName, baseUrl) ==
    [enabledTools |-> enabledTools,
     usedTools |-> usedToolsOf(toolCallCounts(assistantMessage)),
     model |-> modelOf(modelId, modelName, baseUrl)]

Message(parts) == [parts |-> Some(parts)]

----------------------------------------------------------------------------
(* Values the environment draws from *)

AgentIds == {UndefStr, "", "agent1"}
Prompts == {UndefStr, "", "summarise"}
DevAppId == "app_dev_1"
ProdAppId == "app_1"
AppIds == {UndefStr, DevAppId, ProdAppId}
EmptySchema == {}
AnswerSchema == {"answer"}
OutputSchemas == {None, Some(EmptySchema), Some(AnswerSchema)}

ToolNames == {"A", "B"}
RECURSIVE SeqsUpTo(_, _)
SeqsUpTo(S, n) ==
    IF n = 0 THEN {<<>>}
    ELSE LET shorter == SeqsUpTo(S, n - 1)
         IN  shorter \cup {Append(q, x) : q \in shorter, x \in S}
ToolLists == SeqsUpTo(ToolNames, MaxTools)

(* agentConfig.enabledTools: unset, empty, a subset, names of no available tool *)
EnabledToolChoices == {None, Some(<<>>), Some(<<"A">>), Some(<<"Z", "B">>)}
LiveChoices == {None, Some(TRUE), Some(FALSE)}
AgentConfigs ==
    [name : {"helper"}, aiconfig : {"cfg1"},
     enabledTools : EnabledToolChoices, live : LiveChoices]

ModelConfigs ==
    {[modelId |-> a, modelName |-> b, baseUrl |-> c, apiKey |-> "key"] :
        <<a, b, c>> \in {<<UndefStr, UndefStr, "">>, <<"m1", UndefStr, "">>,
                         <<"", "gpt", UndefStr>>, <<UndefStr, "", "http://llm">>,
                         <<"m1", "gpt", "http://llm">>}}

Errors ==
    {[name |-> "Error", message |-> "boom"],
     [name |-> "TypeError", message |-> ""],
     [name |-> UndefStr, message |-> UndefStr]}

(* what tracer.llmobs.annotate throws when it fails *)
TraceErrors == {[name |-> "Error", message |-> "Cannot annotate a finished span"]}

(* automationUtils.getError: the normalised, non-empty message of an error *)
getError(err) ==
    IF Truthy(err.message) THEN err.message
    ELSE IF Truthy(err.name) THEN err.name
    ELSE "No error provided."

(* db/utils isProdWorkspaceID: the workspace-classification helper *)
isProdWorkspaceID(appId) == appId = ProdAppId

----------------------------------------------------------------------------
(* The model backend behind ToolLoopAgent.  A script answers the first      *)
(* toolCalls steps with a tool call and then gives its final answer; the    *)
(* endless script asks for another tool call at every step; the silent      *)
(* script ends the stream before any message snapshot.                      *)

StepBound == 30
Endless == 0 - 1
Silent == 0 - 2
Scripts == {Endless, Silent} \cup (0..MaxScript)

ToolOfStep(k) == IF k % 2 = 1 THEN "search" ELSE "calculator"
IsToolStep(script, k) == script = Endless \/ k <= script

(* A stop condition that is off by one *)
stepCountIsNext(n) == n = StepBound + 1

(* stepCountIs(30): agent.ts 188 *)
stepCountIs(n) == n = StepBound

(* the loop stops after a step without a tool call, or when stopWhen holds *)
StreamDone(sr) ==
    \/ sr.script = Silent
    \/ /\ sr.steps > 0
       /\ (~IsToolStep(sr.script, sr.steps) \/ stepCountIs(sr.steps))

StepPart(script, k) == IF IsToolStep(script, k) THEN ToolPart(ToolOfStep(k)) ELSE TextPart

(* streamResult.text: the text of the last step *)
TextOf(sr) ==
    IF sr.script = Silent \/ IsToolStep(sr.script, sr.steps) THEN "" ELSE "final answer"
UsageOf(sr) == [steps |-> sr.steps]
OutputOf(sr) == [answer |-> TextOf(sr)]

----------------------------------------------------------------------------
(* What the collaborators may answer. Two interleaved invocations are       *)
(* explored with a few answers per collaborator, enough for the two to      *)
(* differ in every answer; the tracer does not fail there.                  *)

PairAgentConfigs ==
    {c \in AgentConfigs : c.enabledTools = Some(<<"A">>) /\ c.live = Some(FALSE)}
PairToolLists == {<<"B">>, <<"A", "B">>}
PairModelConfigs ==
    {m \in ModelConfigs :
        (Truthy(m.modelId) /\ Truthy(m.modelName) /\ Truthy(m.baseUrl))
        \/ (~Truthy(m.modelId) /\ ~Truthy(m.modelName) /\ ~Truthy(m.baseUrl))}
PairScripts == {Silent, 1}
PairErrors == {CHOOSE e \in Errors : Truthy(e.message)}

AgentConfigsHere == IF world = "pair" THEN PairAgentConfigs ELSE AgentConfigs
ToolListsHere == IF world = "pair" THEN PairToolLists ELSE ToolLists
ModelConfigsHere == IF world = "pair" THEN PairModelConfigs ELSE ModelConfigs
ScriptsHere == IF world = "pair" THEN PairScripts ELSE Scripts
ErrorsHere == IF world = "pair" THEN PairErrors ELSE Errors
TraceErrorsHere == IF world = "pair" THEN {} ELSE TraceErrors

----------------------------------------------------------------------------
(* The frame of one invocation of run() *)

IdleFrame ==
    [pc |-> "idle",
     agentId |-> UndefStr, prompt |-> UndefStr,
     useStructuredOutput |-> FALSE, outputSchema |-> None, appId |-> UndefStr,
     enabledTools |-> None, modelId |-> UndefStr, modelName |-> UndefStr,
     baseUrl |-> UndefStr,
     sessionId |-> None,
     agentConfig |-> None, allTools |-> None, litellm |-> None,
     outputOption |-> None, streamResult |-> None, assistantMessage |-> None,
     responseText |-> None, usage |-> None,
     err |-> None, outcome |-> None, thrown |-> None]

NoSpan == [opens |-> 0, closes |-> 0, sessionId |-> None, annotations |-> <<>>]
NoAnswers ==
    [agentConfig |-> None, allTools |-> None, model |-> None, script |-> None,
     error |-> None]
NoTrail ==
    [failedAt |-> "", traceFaults |-> {}, agentLive |-> None, partial |-> FALSE,
     answers |-> NoAnswers, after |-> {}]

Init ==
    /\ frame = [i \in Inv |-> IdleFrame]
    /\ span = [i \in Inv |-> NoSpan]
    /\ calls = [i \in Inv |-> <<>>]
    /\ trail = [i \in Inv |-> NoTrail]
    /\ nextSession = 0
    /\ probe = None
    /\ world = "any"

(* A step with the variables of agent.ts 85-88 declared once for the module  *)
(* instead of once per invocation: what one invocation assigns, all hold     *)
StepSharingLocals(i, f, sp, tr, called) ==
    /\ frame' = [j \in Inv |->
                    IF j = i THEN f
                    ELSE [frame[j] EXCEPT !.enabledTools = f.enabledTools,
                                          !.modelId = f.modelId,
                                          !.modelName = f.modelName,
                                          !.baseUrl = f.baseUrl]]
    /\ span' = [span EXCEPT ![i] = sp]
    /\ trail' = [trail EXCEPT ![i] = tr]
    /\ calls' = [calls EXCEPT ![i] = @ \o called]

(* One step of invocation i: new frame, span and trail, one more call logged *)
Step(i, f, sp, tr, called) ==
    /\ frame' = [frame EXCEPT ![i] = f]
    /\ span' = [span EXCEPT ![i] = sp]
    /\ trail' = [trail EXCEPT ![i] = tr]
    /\ calls' = [calls EXCEPT ![i] = @ \o called]

(* Caught without the try block around it: the thrown value leaves run() *)
CaughtNowhere(f, e) == [f EXCEPT !.pc = "settled", !.thrown = Some(e)]

(* Control leaves the try block with a thrown value: the block's locals go  *)
(* out of scope, the variables declared before it (agent.ts 85-88) stay     *)
Caught(f, e) ==
    [f EXCEPT !.pc = "catch", !.err = Some(e),
              !.agentConfig = None, !.allTools = None, !.litellm = None,
              !.outputOption = None, !.streamResult = None,
              !.assistantMessage = None, !.responseText = None, !.usage = None]

(* the answer a collaborator gave this invocation, kept for the pair *)
Heard(tr, from, answer) ==
    IF world = "pair" THEN [tr EXCEPT !.answers[from] = Some(answer)] ELSE tr

FailedAt(tr, at) == [tr EXCEPT !.failedAt = at]
Resolved(tr, agentConfig) == [tr EXCEPT !.agentLive = Some(agentConfig.live)]
TraceFault(tr, site) == [tr EXCEPT !.traceFaults = @ \cup {site}]
(* the stream threw after `steps` snapshots had been observed *)
FailedMidStream(tr, steps) ==
    [tr EXCEPT !.failedAt = "readUIMessageStream", !.partial = steps > 0]

(* tracer.llmobs.annotate(agentSpan, ...) *)
Annotation(kind, outputData, stepCount) ==
    [kind |-> kind, outputData |-> outputData, stepCount |-> stepCount]
annotate(sp, a) == [sp EXCEPT !.annotations = Append(@, a)]

(* The async callback returns: its promise settles with the outcome *)
Return(f, o) ==
    [f EXCEPT !.pc = "settled", !.outcome = Some(o), !.err = None]

Outcome(success, response, usage, message, output, agentTrace) ==
    [success |-> success, response |-> response, usage |-> usage,
     message |-> message, output |-> output, agentTrace |-> agentTrace]

----------------------------------------------------------------------------
(* run(): entry and input validation, agent.ts 78-108 *)

NoAgentResponse == "Agent step failed: No agent selected"
NoPromptResponse == "Agent step failed: No prompt provided"
PausedResponse == "Agent is paused. Set it live to use it in published automations."

(* Validate without the check of the prompt *)
ValidateAgentOnly(agentId, prompt) ==
    IF ~Truthy(agentId)
    THEN Some(Outcome(FALSE, NoAgentResponse, None, None, None, None))
    ELSE None

(* agent.ts 90-102: the outcome of the validation, None if the inputs pass *)
Validate(agentId, prompt) ==
    IF ~Truthy(agentId)
    THEN Some(Outcome(FALSE, NoAgentResponse, None, None, None, None))
    ELSE IF ~Truthy(prompt)
    THEN Some(Outcome(FALSE, NoPromptResponse, None, None, None, None))
    ELSE None

(* The host engine runs one step at a time, in the lowest slot (the slots   *)
(* are interchangeable)                                                     *)
EngineFree(i) == \A j \in Inv : frame[j].pc = "idle" /\ i <= j

(* The engine calls run({inputs, appId}) *)
Call(i) ==
    /\ frame[i].pc = "idle"
    /\ EngineFree(i)
    /\ nextSession < MaxSessions
    /\ \E a \in AgentIds, p \in Prompts, u \in BOOLEAN, o \in OutputSchemas, w \in AppIds :
        frame' = [frame EXCEPT ![i] =
                    [IdleFrame EXCEPT !.pc = "run", !.agentId = a, !.prompt = p,
                                      !.useStructuredOutput = u, !.outputSchema = o,
                                      !.appId = w]]
    /\ UNCHANGED <<span, calls, trail, nextSession, probe, world>>

(* agent.ts 90-102: a missing agentId or prompt returns at once *)
ValidateFail(i) ==
    /\ frame[i].pc = "run"
    /\ IsSome(Validate(frame[i].agentId, frame[i].prompt))
    /\ frame' = [frame EXCEPT ![i] =
                    [@ EXCEPT !.pc = "done",
                              !.outcome = Validate(frame[i].agentId, frame[i].prompt)]]
    /\ UNCHANGED <<span, calls, trail, nextSession, probe, world>>

(* tracer.llmobs.trace opens the span and calls the callback with it *)
OpenSpan(sp, sessionId) ==
    [sp EXCEPT !.opens = @ + 1, !.sessionId = Some(sessionId)]

(* a session id made once for the module instead of once per invocation *)
v4Once(issued) == 1

(* uuid v4(): an id that was never issued before; nextSession counts the    *)
(* ids issued so far                                                        *)
v4(issued) == issued + 1

(* agent.ts 104-108: const sessionId = v4(); tracer.llmobs.trace(...) *)
StartTrace(i) ==
    /\ frame[i].pc = "run"
    /\ ~IsSome(Validate(frame[i].agentId, frame[i].prompt))
    /\ nextSession' = nextSession + 1
    /\ frame' = [frame EXCEPT ![i] =
                    [@ EXCEPT !.pc = "getOrThrow", !.sessionId = Some(v4(nextSession))]]
    /\ span' = [span EXCEPT ![i] = OpenSpan(@, v4(nextSession))]
    /\ calls' = [calls EXCEPT ![i] = @ \o <<"v4", "trace">>]
    /\ UNCHANGED <<trail, probe, world>>

----------------------------------------------------------------------------
(* run(): configuration resolution, agent.ts 110-141 *)

(* agent.ts 110: await sdk.ai.agents.getOrThrow(agentId) *)
GetOrThrow(i) ==
    /\ frame[i].pc = "getOrThrow"
    /\ \/ \E c \in AgentConfigsHere :
            Step(i, [frame[i] EXCEPT !.pc = "getAvailableToolsMetadata",
                                     !.agentConfig = Some(c)],
                 span[i], Heard(Resolved(trail[i], c), "agentConfig", c),
                 <<"getOrThrow">>)
       \/ \E e \in ErrorsHere :
            Step(i, Caught(frame[i], e), span[i],
                 Heard(FailedAt(trail[i], "getOrThrow"), "error", e),
                 <<"getOrThrow">>)
    /\ UNCHANGED <<nextSession, probe, world>>

(* filterEnabled without the test for an empty set of names *)
filterEnabledAlways(allTools, enabledTools) ==
    LET enabledToolNames ==
            IF IsSome(enabledTools)
            THEN {The(enabledTools)[k] : k \in 1..Len(The(enabledTools))}
            ELSE {}
        has(tool) == tool \in enabledToolNames
    IN  SelectSeq(allTools, has)

(* agent.ts 114-118 *)
filterEnabled(allTools, enabledTools) ==
    LET enabledToolNames ==
            IF IsSome(enabledTools)
            THEN {The(enabledTools)[k] : k \in 1..Len(The(enabledTools))}
            ELSE {}
        has(tool) == tool \in enabledToolNames
    IN  IF Cardinality(enabledToolNames) > 0
        THEN SelectSeq(allTools, has)
        ELSE allTools

(* isPaused without the test of the workspace: refuses in development too *)
isPausedAnyWorkspace(appId, agentConfig) ==
    /\ Truthy(appId)
    /\ agentConfig.live # Some(TRUE)

(* isPaused refusing only an agent whose live flag is false *)
isPausedWhenFalse(appId, agentConfig) ==
    /\ Truthy(appId)
    /\ isProdWorkspaceID(appId)
    /\ agentConfig.live = Some(FALSE)

(* agent.ts 131 *)
isPaused(appId, agentConfig) ==
    /\ Truthy(appId)
    /\ isProdWorkspaceID(appId)
    /\ agentConfig.live # Some(TRUE)

(* agent.ts 136-140 *)
PausedOutcome == Outcome(FALSE, PausedResponse, None, None, None, None)

(* agent.ts 111-141: await getAvailableToolsMetadata, then without          *)
(* suspending: the tool filter, the metadata annotation, the paused check   *)
GetAvailableToolsMetadata(i) ==
    /\ frame[i].pc = "getAvailableToolsMetadata"
    /\ \/ \E e \in ErrorsHere :
            Step(i, Caught(frame[i], e), span[i],
                 Heard(FailedAt(trail[i], "getAvailableToolsMetadata"), "error", e),
                 <<"getAvailableToolsMetadata">>)
       \/ \E all \in ToolListsHere :
            LET cfg == The(frame[i].agentConfig)
                f1 == [frame[i] EXCEPT
                         !.allTools = Some(all),
                         !.enabledTools = Some(filterEnabled(all, cfg.enabledTools))]
                sp1 == annotate(span[i], Annotation("metadata", UndefStr, -1))
                sp2 == annotate(sp1, Annotation("paused", "Agent is paused", -1))
                tr1 == Heard(trail[i], "allTools", all)
            IN  \/ \E e \in TraceErrorsHere :
                     Step(i, Caught(f1, e), span[i], TraceFault(tr1, "metadata"),
                          <<"getAvailableToolsMetadata">>)
                \/ /\ isPaused(frame[i].appId, cfg)
                   /\ \/ \E e \in TraceErrorsHere :
                            Step(i, Caught(f1, e), sp1, TraceFault(tr1, "paused"),
                                 <<"getAvailableToolsMetadata">>)
                      \/ Step(i, Return(f1, PausedOutcome), sp2, tr1,
                              <<"getAvailableToolsMetadata">>)
                \/ /\ ~isPaused(frame[i].appId, cfg)
                   /\ Step(i, [f1 EXCEPT !.pc = "buildPromptAndTools"], sp1, tr1,
                           <<"getAvailableToolsMetadata">>)
    /\ UNCHANGED <<nextSession, probe, world>>

----------------------------------------------------------------------------
(* run(): prompt, model configuration and agent construction, 143-195 *)

(* agent.ts 143-144: await sdk.ai.agents.buildPromptAndTools(agentConfig) *)
BuildPromptAndTools(i) ==
    /\ frame[i].pc = "buildPromptAndTools"
    /\ \/ Step(i, [frame[i] EXCEPT !.pc = "getLiteLLMModelConfigOrThrow"],
               span[i], trail[i], <<"buildPromptAndTools">>)
       \/ \E e \in ErrorsHere :
            Step(i, Caught(frame[i], e), span[i],
                 Heard(FailedAt(trail[i], "buildPromptAndTools"), "error", e),
                 <<"buildPromptAndTools">>)
    /\ UNCHANGED <<nextSession, probe, world>>

(* helpers.structuredOutput.normalizeSchemaForStructuredOutput *)
normalizeSchemaForStructuredOutput(schema) ==
    [properties |-> schema, required |-> schema, additionalProperties |-> FALSE]

(* the test without its key count: an empty schema would be attached *)
wantsStructuredOutputAnySchema(useStructuredOutput, outputSchema) ==
    /\ useStructuredOutput
    /\ IsSome(outputSchema)

(* agent.ts 171-175 *)
wantsStructuredOutput(useStructuredOutput, outputSchema) ==
    /\ useStructuredOutput
    /\ IsSome(outputSchema)
    /\ Cardinality(The(outputSchema)) > 0

(* ai.createLiteLLMOpenAI with fetch: createLiteLLMFetch(sessionId) *)
createLiteLLMOpenAI(apiKey, baseUrl, sessionId) ==
    [apiKey |-> apiKey, baseUrl |-> baseUrl, sessionId |-> sessionId]

(* agent.ts 146-195: await getLiteLLMModelConfigOrThrow, then without       *)
(* suspending: the model annotation, the client, the output constraint,     *)
(* the agent and the call of agent.stream                                   *)
GetModelConfig(i) ==
    /\ frame[i].pc = "getLiteLLMModelConfigOrThrow"
    /\ \/ \E e \in ErrorsHere :
            Step(i, Caught(frame[i], e), span[i],
                 Heard(FailedAt(trail[i], "getLiteLLMModelConfigOrThrow"), "error", e),
                 <<"getLiteLLMModelConfigOrThrow">>)
       \/ \E m \in ModelConfigsHere :
            LET f1 == [frame[i] EXCEPT !.modelId = m.modelId,
                                       !.modelName = m.modelName,
                                       !.baseUrl = m.baseUrl]
                sp1 == annotate(span[i], Annotation("model", UndefStr, -1))
                tr1 == Heard(trail[i], "model", m)
                client == createLiteLLMOpenAI(m.apiKey, m.baseUrl, The(frame[i].sessionId))
                structured == wantsStructuredOutput(frame[i].useStructuredOutput,
                                                   frame[i].outputSchema)
                option == IF structured
                          THEN Some(normalizeSchemaForStructuredOutput(
                                        The(frame[i].outputSchema)))
                          ELSE None
            IN  \/ \E e \in TraceErrorsHere :
                     Step(i, Caught(f1, e), span[i], TraceFault(tr1, "model"),
                          <<"getLiteLLMModelConfigOrThrow">>)
                \/ \E e \in ErrorsHere :
                     Step(i, Caught(f1, e), sp1,
                          Heard(FailedAt(tr1, "createLiteLLMOpenAI"), "error", e),
                          <<"getLiteLLMModelConfigOrThrow", "createLiteLLMOpenAI">>)
                \/ /\ structured
                   /\ \E e \in ErrorsHere :
                        Step(i, Caught(f1, e), sp1,
                             Heard(FailedAt(tr1, "normalizeSchemaForStructuredOutput"),
                                   "error", e),
                             <<"getLiteLLMModelConfigOrThrow", "createLiteLLMOpenAI",
                               "normalizeSchemaForStructuredOutput">>)
                \/ Step(i, [f1 EXCEPT !.pc = "stream",
                                      !.agentConfig = None, !.allTools = None,
                                      !.litellm = Some(client),
                                      !.outputOption = option],
                        sp1, tr1,
                        <<"getLiteLLMModelConfigOrThrow", "createLiteLLMOpenAI">>
                        \o (IF structured
                            THEN <<"normalizeSchemaForStructuredOutput">> ELSE <<>>))
    /\ UNCHANGED <<nextSession, probe, world>>

----------------------------------------------------------------------------
(* run(): the stream and its aggregates, agent.ts 195-228 *)

(* agent.ts 195: await agent.stream({ prompt }) *)
Stream(i) ==
    /\ frame[i].pc = "stream"
    /\ \/ \E script \in ScriptsHere :
            Step(i, [frame[i] EXCEPT
                        !.pc = "readUIMessageStream",
                        !.streamResult =
                            Some([script |-> script, steps |-> 0,
                                  constrained |-> IsSome(frame[i].outputOption)])],
                 span[i], Heard(trail[i], "script", script), <<"stream">>)
       \/ \E e \in ErrorsHere :
            Step(i, Caught(frame[i], e), span[i],
                 Heard(FailedAt(trail[i], "stream"), "error", e),
                 <<"stream">>)
    /\ UNCHANGED <<nextSession, probe, world>>

(* the snapshot readUIMessageStream yields after one more step of the loop *)
Snapshot(assistantMessage, part) == Message(Append(partsOf(assistantMessage), part))

(* the loop with its exception swallowed: the partial message goes on to   *)
(* the aggregates                                                           *)
StreamNextSwallowing(i) ==
    /\ frame[i].pc = "readUIMessageStream"
    /\ ~StreamDone(The(frame[i].streamResult))
    /\ LET sr == The(frame[i].streamResult)
           k == sr.steps + 1
       IN  \/ Step(i, [frame[i] EXCEPT
                          !.streamResult = Some([sr EXCEPT !.steps = k]),
                          !.assistantMessage =
                              Some(Message(Append(partsOf(frame[i].assistantMessage),
                                                  StepPart(sr.script, k))))],
                   span[i], trail[i], <<>>)
           \/ Step(i, [frame[i] EXCEPT !.pc = "text"], span[i],
                   FailedMidStream(trail[i], sr.steps), <<>>)
    /\ UNCHANGED <<nextSession, probe, world>>

(* agent.ts 198-202: one iteration of the for await loop *)
StreamNext(i) ==
    /\ frame[i].pc = "readUIMessageStream"
    /\ ~StreamDone(The(frame[i].streamResult))
    /\ LET sr == The(frame[i].streamResult)
           k == sr.steps + 1
       IN  \/ Step(i, [frame[i] EXCEPT
                          !.streamResult = Some([sr EXCEPT !.steps = k]),
                          !.assistantMessage =
                              Some(Snapshot(frame[i].assistantMessage,
                                            StepPart(sr.script, k)))],
                   span[i], trail[i], <<>>)
           \/ \E e \in ErrorsHere :
                Step(i, Caught(frame[i], e), span[i],
                     Heard(FailedMidStream(trail[i], sr.steps), "error", e), <<>>)
    /\ UNCHANGED <<nextSession, probe, world>>

(* a loop that may be left before the stream is exhausted *)
StreamEndEarly(i) ==
    /\ frame[i].pc = "readUIMessageStream"
    /\ Step(i, [frame[i] EXCEPT !.pc = "text"], span[i], trail[i], <<>>)
    /\ UNCHANGED <<nextSession, probe, world>>

(* agent.ts 198-202: the stream is exhausted, the loop is left *)
StreamEnd(i) ==
    /\ frame[i].pc = "readUIMessageStream"
    /\ StreamDone(The(frame[i].streamResult))
    /\ Step(i, [frame[i] EXCEPT !.pc = "text"], span[i], trail[i], <<>>)
    /\ UNCHANGED <<nextSession, probe, world>>

(* agent.ts 204: await streamResult.text *)
ReadText(i) ==
    /\ frame[i].pc = "text"
    /\ \/ Step(i, [frame[i] EXCEPT
                      !.pc = "usage",
                      !.responseText = Some(TextOf(The(frame[i].streamResult)))],
               span[i], trail[i], <<"text">>)
       \/ \E e \in ErrorsHere :
            Step(i, Caught(frame[i], e), span[i],
                 Heard(FailedAt(trail[i], "text"), "error", e), <<"text">>)
    /\ UNCHANGED <<nextSession, probe, world>>

(* agent.ts 212 *)
stepCountOf(assistantMessage) == Len(partsOf(assistantMessage))

(* a success return whose trace is built without the message *)
SuccessOutcomeTraceWithoutMessage(f, output) ==
    Outcome(TRUE, The(f.responseText), f.usage, f.assistantMessage, output,
            Some(buildAgentDecisionLog(f.enabledTools, None,
                                       f.modelId, f.modelName, f.baseUrl)))

(* agent.ts 215-228 *)
SuccessOutcome(f, output) ==
    Outcome(TRUE, The(f.responseText), f.usage, f.assistantMessage, output,
            Some(buildAgentDecisionLog(f.enabledTools, f.assistantMessage,
                                       f.modelId, f.modelName, f.baseUrl)))

(* agent.ts 210-228: the success annotation and the return *)
Succeed(i, f, output, called) ==
    \/ Step(i, Return(f, SuccessOutcome(f, output)),
            annotate(span[i], Annotation("success", The(f.responseText),
                                         stepCountOf(f.assistantMessage))),
            trail[i], called)
    \/ \E e \in TraceErrorsHere :
         Step(i, Caught(f, e), span[i], TraceFault(trail[i], "success"), called)

(* agent.ts 205-228: await streamResult.usage; without an output constraint *)
(* nothing more is awaited                                                  *)
ReadUsage(i) ==
    /\ frame[i].pc = "usage"
    /\ \/ LET f1 == [frame[i] EXCEPT !.usage = Some(UsageOf(The(frame[i].streamResult)))]
          IN  IF IsSome(frame[i].outputOption)
              THEN Step(i, [f1 EXCEPT !.pc = "output"], span[i], trail[i], <<"usage">>)
              ELSE Succeed(i, f1, None, <<"usage">>)
       \/ \E e \in ErrorsHere :
            Step(i, Caught(frame[i], e), span[i],
                 Heard(FailedAt(trail[i], "usage"), "error", e),
                 <<"usage">>)
    /\ UNCHANGED <<nextSession, probe, world>>

(* agent.ts 206-228: await streamResult.output *)
ReadOutput(i) ==
    /\ frame[i].pc = "output"
    /\ \/ Succeed(i, frame[i], Some(OutputOf(The(frame[i].streamResult))), <<"output">>)
       \/ \E e \in ErrorsHere :
            Step(i, Caught(frame[i], e), span[i],
                 Heard(FailedAt(trail[i], "output"), "error", e),
                 <<"output">>)
    /\ UNCHANGED <<nextSession, probe, world>>

----------------------------------------------------------------------------
(* run(): the catch block and the end of the invocation, agent.ts 229-260 *)

(* FailureOutcome answering with the raw message of the error *)
FailureOutcomeRawMessage(f, errorMessage) ==
    Outcome(FALSE, The(f.err).message, None, None, None,
            Some(buildAgentDecisionLog(f.enabledTools, None,
                                       f.modelId, f.modelName, f.baseUrl)))

(* agent.ts 248-257 *)
FailureOutcome(f, errorMessage) ==
    Outcome(FALSE, errorMessage, None, None, None,
            Some(buildAgentDecisionLog(f.enabledTools, None,
                                       f.modelId, f.modelName, f.baseUrl)))

(* agent.ts 229-258: an exception of the annotation leaves the callback *)
Catch(i) ==
    /\ frame[i].pc = "catch"
    /\ LET errorMessage == getError(The(frame[i].err))
       IN  \/ Step(i, Return(frame[i], FailureOutcome(frame[i], errorMessage)),
                   annotate(span[i], Annotation("error", errorMessage, -1)),
                   trail[i], <<>>)
           \/ \E e \in TraceErrorsHere :
                Step(i, [frame[i] EXCEPT !.pc = "settled", !.thrown = Some(e), !.err = None],
                     span[i], TraceFault(trail[i], "error"), <<>>)
    /\ UNCHANGED <<nextSession, probe, world>>

(* A span that is never finished *)
CloseSpanNever(sp) == sp

(* tracer.llmobs.trace finishes the span when the callback's promise settles *)
CloseSpan(sp) == [sp EXCEPT !.closes = @ + 1]

(* agent.ts 106, 260: the promise of run settles after the span is finished *)
Finish(i) ==
    /\ frame[i].pc = "settled"
    /\ frame' = [frame EXCEPT ![i] =
                    [@ EXCEPT !.pc = IF IsSome(frame[i].thrown) THEN "raised" ELSE "done"]]
    /\ span' = [span EXCEPT ![i] = CloseSpan(@)]
    /\ UNCHANGED <<calls, trail, nextSession, probe, world>>

(* The engine takes the result; the frame of the invocation is gone *)
Collect(i) ==
    /\ frame[i].pc \in {"done", "raised"}
    /\ frame' = [frame EXCEPT ![i] = IdleFrame]
    /\ span' = [span EXCEPT ![i] = NoSpan]
    /\ calls' = [calls EXCEPT ![i] = <<>>]
    /\ trail' = [trail EXCEPT ![i] = NoTrail]
    /\ UNCHANGED <<nextSession, probe, world>>

Next ==
    \E i \in Inv :
        \/ Call(i)
        \/ ValidateFail(i)
        \/ StartTrace(i)
        \/ GetOrThrow(i)
        \/ GetAvailableToolsMetadata(i)
        \/ BuildPromptAndTools(i)
        \/ GetModelConfig(i)
        \/ Stream(i)
        \/ StreamNext(i)
        \/ StreamEnd(i)
        \/ ReadText(i)
        \/ ReadUsage(i)
        \/ ReadOutput(i)
        \/ Catch(i)
        \/ Finish(i)
        \/ Collect(i)

Spec == Init /\ [][Next]_vars

----------------------------------------------------------------------------
(* Two invocations of run() in flight at once: the engine starts the second *)
(* without waiting for the first, and the two are interleaved at every      *)
(* await. Nothing is collected, so both outcomes can be compared.           *)

Pair == {1, 2}
PairAgentIds == {"", "agent1"}
PairOutputs == {<<FALSE, None>>, <<TRUE, Some(AnswerSchema)>>}
PairAppIds == {DevAppId, ProdAppId}

InitPair ==
    /\ frame = [i \in Inv |-> IdleFrame]
    /\ span = [i \in Inv |-> NoSpan]
    /\ calls = [i \in Inv |-> <<>>]
    /\ trail = [i \in Inv |-> NoTrail]
    /\ nextSession = 0
    /\ probe = None
    /\ world = "pair"

(* The engine calls run({inputs, appId}) whatever the other slot is doing *)
CallInterleaved(i) ==
    /\ frame[i].pc = "idle"
    /\ \E a \in PairAgentIds, uo \in PairOutputs, w \in PairAppIds :
        frame' = [frame EXCEPT ![i] =
                    [IdleFrame EXCEPT !.pc = "run", !.agentId = a, !.prompt = "summarise",
                                      !.useStructuredOutput = uo[1],
                                      !.outputSchema = uo[2], !.appId = w]]
    /\ trail' = [trail EXCEPT ![i].after = {j \in Inv : frame[j].pc = "done"}]
    /\ UNCHANGED <<span, calls, nextSession, probe, world>>

NextPair ==
    \E i \in Pair :
        \/ CallInterleaved(i)
        \/ ValidateFail(i)
        \/ StartTrace(i)
        \/ GetOrThrow(i)
        \/ GetAvailableToolsMetadata(i)
        \/ BuildPromptAndTools(i)
        \/ GetModelConfig(i)
        \/ Stream(i)
        \/ StreamNext(i)
        \/ StreamEnd(i)
        \/ ReadText(i)
        \/ ReadUsage(i)
        \/ ReadOutput(i)
        \/ Catch(i)
        \/ Finish(i)

SpecPair == InitPair /\ [][NextPair]_vars

----------------------------------------------------------------------------
(* buildAgentDecisionLog called directly on any message of up to MaxParts   *)
(* parts                                                                    *)

PartSet ==
    {NullPart,
     TextPart,
     Part(None, Some(Str("search"))),
     Part(Some(NumT), Some(Str("search"))),
     Part(Some(Str(ToolNoDash)), Some(Str("search"))),
     ToolPart("search"),
     ToolPart("calculator"),
     StaticToolPart("search"),
     Part(Some(Str(DynamicTool)), None),
     Part(Some(Str(ToolStatic)), Some(NumN)),
     Part(Some(Str(DynamicTool)), Some(Str("")))}

ProbeMessages ==
    {None, Some([parts |-> None])} \cup {Some(Message(q)) : q \in SeqsUpTo(PartSet, MaxParts)}

InitLog ==
    /\ frame = [i \in Inv |-> IdleFrame]
    /\ span = [i \in Inv |-> NoSpan]
    /\ calls = [i \in Inv |-> <<>>]
    /\ trail = [i \in Inv |-> NoTrail]
    /\ nextSession = 0
    /\ world = "any"
    /\ \E m \in ProbeMessages, t \in {None, Some(<<"A">>)}, c \in ModelConfigs :
        probe = [assistantMessage |-> m, enabledTools |-> t, modelId |-> c.modelId,
                 modelName |-> c.modelName, baseUrl |-> c.baseUrl, log |-> None]

BuildLog ==
    /\ probe.log = None
    /\ probe' = [probe EXCEPT !.log =
                    Some(buildAgentDecisionLog(probe.enabledTools, probe.assistantMessage,
                                               probe.modelId, probe.modelName,
                                               probe.baseUrl))]
    /\ UNCHANGED <<frame, span, calls, trail, nextSession, world>>

NextLog == BuildLog

SpecLog == InitLog /\ [][NextLog]_vars

----------------------------------------------------------------------------
(* Properties *)

Returned(i) == frame[i].pc = "done"
Raised(i) == frame[i].pc = "raised"
InputsPass(i) == Truthy(frame[i].agentId) /\ Truthy(frame[i].prompt)
Called(i, name) == \E k \in 1..Len(calls[i]) : calls[i][k] = name

(* The collaborator calls of the try block that are not tracing calls *)
FailurePoints ==
    {"getOrThrow", "getAvailableToolsMetadata", "buildPromptAndTools",
     "getLiteLLMModelConfigOrThrow", "createLiteLLMOpenAI",
     "normalizeSchemaForStructuredOutput", "stream", "readUIMessageStream",
     "text", "usage", "output"}

(* C1: when a collaborator call between configuration resolution and the    *)
(* reading of the final aggregates throws (and no span annotation throws),  *)
(* the exception is caught: run goes on to return an outcome with           *)
(* success = false, and no exception reaches the caller.                    *)
C1_CollaboratorFailureReturnsFailure ==
    \A i \in Inv :
        (trail[i].failedAt \in FailurePoints /\ trail[i].traceFaults = {}) =>
            /\ frame[i].pc \in {"catch", "settled", "done"}
            /\ frame[i].thrown = None
            /\ frame[i].pc = "catch" => ENABLED Catch(i)
            /\ frame[i].pc = "settled" => ENABLED Finish(i)
            /\ frame[i].pc \in {"settled", "done"} =>
                 /\ IsSome(frame[i].outcome)
                 /\ The(frame[i].outcome).success = FALSE

C1_Witness ==
    \E i \in Inv :
        /\ Returned(i)
        /\ trail[i].failedAt = "readUIMessageStream"
        /\ trail[i].traceFaults = {}
        /\ The(frame[i].outcome).success = FALSE

(* C2: with agentId or prompt missing or empty, run returns success = false *)
(* and the invocation generates no session id, opens and annotates no span, *)
(* and calls no collaborator.                                               *)
C2_InvalidInputsTouchNothing ==
    \A i \in Inv :
        (frame[i].pc # "idle" /\ ~InputsPass(i)) =>
            /\ frame[i].pc \in {"run", "done"}
            /\ frame[i].pc = "run" => ENABLED ValidateFail(i)
            /\ frame[i].pc = "done" =>
                 /\ IsSome(frame[i].outcome)
                 /\ The(frame[i].outcome).success = FALSE
            /\ frame[i].sessionId = None
            /\ span[i] = NoSpan
            /\ calls[i] = <<>>

C2_Witness ==
    \E i \in Inv :
        /\ Returned(i)
        /\ Truthy(frame[i].agentId)
        /\ frame[i].prompt = ""
        /\ The(frame[i].outcome).success = FALSE

(* What the model-backend side of an invocation consists of *)
BackendCalls ==
    {"buildPromptAndTools", "getLiteLLMModelConfigOrThrow", "createLiteLLMOpenAI",
     "stream"}
NoBackendCall(i) == \A name \in BackendCalls : ~Called(i, name)

(* The agent store answered with an agent whose live flag is not true, and  *)
(* the workspace id is a production workspace id                            *)
NonLiveInProduction(i) ==
    /\ IsSome(trail[i].agentLive)
    /\ The(trail[i].agentLive) # Some(TRUE)
    /\ frame[i].appId = ProdAppId

C4_SpanOpenedAndClosedOnce ==
    \A i \in Inv :
        (InputsPass(i) /\ frame[i].pc \notin {"idle", "run"}) =>
            /\ span[i].opens = 1
            /\ span[i].closes = IF frame[i].pc \in {"done", "raised"} THEN 1 ELSE 0
            /\ span[i].closes > 0 => (IsSome(frame[i].outcome) \/ IsSome(frame[i].thrown))
            /\ frame[i].pc = "settled" => ENABLED Finish(i)

C4_Witness ==
    \E i \in Inv :
        /\ Returned(i)
        /\ The(frame[i].outcome).success
        /\ span[i].opens = 1
        /\ span[i].closes = 1
        /\ Len(span[i].annotations) = 3

(* C5: with a backend that asks for another tool call at every step the     *)
(* loop makes exactly StepBound = 30 steps and no 31st, and stopping at the *)
(* bound is no error: unless something else throws, run returns             *)
(* success = true with the last snapshot as the outcome's message.          *)
C5_LoopStopsAtStepBound ==
    \A i \in Inv :
        IsSome(frame[i].streamResult) =>
            LET sr == The(frame[i].streamResult)
                parts == partsOf(frame[i].assistantMessage)
            IN  /\ sr.steps <= StepBound
                /\ Len(parts) = sr.steps
                /\ sr.script = Endless =>
                     /\ \A k \in 1..Len(parts) : parts[k] = ToolPart(ToolOfStep(k))
                     /\ (frame[i].pc = "readUIMessageStream" /\ sr.steps < StepBound)
                            => (ENABLED StreamNext(i) /\ ~ENABLED StreamEnd(i))
                     /\ (frame[i].pc = "readUIMessageStream" /\ sr.steps = StepBound)
                            => (ENABLED StreamEnd(i) /\ ~ENABLED StreamNext(i))
                     /\ frame[i].pc \in {"text", "usage", "output", "settled", "done"}
                            => sr.steps = StepBound
                     /\ Returned(i) =>
                          /\ The(frame[i].outcome).success = TRUE
                          /\ The(frame[i].outcome).message = frame[i].assistantMessage

C5_Witness ==
    \E i \in Inv :
        /\ Returned(i)
        /\ IsSome(frame[i].streamResult)
        /\ The(frame[i].streamResult).script = Endless
        /\ The(frame[i].streamResult).steps = StepBound
        /\ The(frame[i].outcome).success = TRUE
        /\ Len(partsOf(The(frame[i].outcome).message)) = StepBound

(* C6 as stated: every outcome run returns carries an agentTrace. *)
C6_AsStated ==
    \A i \in Inv : Returned(i) => IsSome(The(frame[i].outcome).agentTrace)

(* The error was caught in the try block of this invocation *)
CaughtError(i) == trail[i].failedAt # "" \/ trail[i].traceFaults \ {"error"} # {}
ToolsResolvedBeforeError(i) ==
    trail[i].failedAt \notin {"getOrThrow", "getAvailableToolsMetadata"}
ModelResolvedBeforeError(i) ==
    /\ trail[i].failedAt \notin
           {"getOrThrow", "getAvailableToolsMetadata", "buildPromptAndTools",
            "getLiteLLMModelConfigOrThrow"}
    /\ trail[i].traceFaults \cap {"metadata", "paused"} = {}

(* C7: the agentTrace of the failure outcome of a caught error holds what   *)
(* was resolved before the error: enabledTools iff the tool list had been   *)
(* resolved and filtered, model iff one of modelId, modelName, baseUrl had  *)
(* been resolved to a non-empty value; usedTools is absent.                 *)
C7_FailureTraceIsWhatWasResolved ==
    \A i \in Inv :
        (Returned(i) /\ CaughtError(i)) =>
            LET log == The(The(frame[i].outcome).agentTrace)
                f == frame[i]
            IN  /\ IsSome(log.enabledTools) <=> ToolsResolvedBeforeError(i)
                /\ log.enabledTools = f.enabledTools
                /\ ~ModelResolvedBeforeError(i) =>
                     /\ log.model = None
                     /\ f.modelId = UndefStr /\ f.modelName = UndefStr
                     /\ f.baseUrl = UndefStr
                /\ IsSome(log.model) <=>
                     \E x \in {f.modelId, f.modelName, f.baseUrl} :
                         x # "" /\ x # UndefStr
                /\ IsSome(log.model) =>
                     The(log.model) =
                         [id |-> f.modelId, name |-> f.modelName, baseUrl |-> f.baseUrl]
                /\ log.usedTools = None

C7_Witness ==
    \E i \in Inv :
        /\ Returned(i)
        /\ trail[i].failedAt = "readUIMessageStream"
        /\ frame[i].modelId = UndefStr
        /\ frame[i].baseUrl = "http://llm"
        /\ IsSome(The(The(frame[i].outcome).agentTrace).model)
        /\ IsSome(The(The(frame[i].outcome).agentTrace).enabledTools)

(* C8: every outcome with success = false has a non-empty response,         *)
(* whether the agentId or the prompt is missing, the agent is paused or an  *)
(* error was caught, also an error without a message of its own.            *)
C8_FailureResponseNonEmpty ==
    \A i \in Inv :
        (Returned(i) /\ The(frame[i].outcome).success = FALSE) =>
            /\ The(frame[i].outcome).response # ""
            /\ The(frame[i].outcome).response # UndefStr

C8_Witness ==
    \E i \in Inv :
        /\ Returned(i)
        /\ trail[i].failedAt = "stream"
        /\ The(frame[i].outcome).success = FALSE
        /\ The(frame[i].outcome).response = "No error provided."

(* the index in allTools of the j-th tool whose name is in names *)
NthEnabled(allTools, names, j) ==
    CHOOSE k \in 1..Len(allTools) :
        /\ allTools[k] \in names
        /\ Cardinality({m \in 1..k : allTools[m] \in names}) = j

(* C9: the enabled tool set is allTools when the agent's enabledTools is    *)
(* empty or unset, otherwise exactly the tools of allTools whose name is in *)
(* enabledTools, in allTools order; it is a subset of allTools, and a name  *)
(* that matches no available tool contributes nothing.                      *)
C9_EnabledToolsFilter ==
    \A i \in Inv :
        (IsSome(frame[i].allTools) /\ IsSome(frame[i].agentConfig)) =>
            LET allTools == The(frame[i].allTools)
                wanted == The(frame[i].agentConfig).enabledTools
                names == IF wanted = None THEN {}
                         ELSE {The(wanted)[k] : k \in 1..Len(The(wanted))}
                hits == {k \in 1..Len(allTools) : allTools[k] \in names}
            IN  /\ IsSome(frame[i].enabledTools)
                /\ LET enabled == The(frame[i].enabledTools)
                   IN  /\ names = {} => enabled = allTools
                       /\ names # {} =>
                            /\ Len(enabled) = Cardinality(hits)
                            /\ \A j \in 1..Len(enabled) :
                                 enabled[j] = allTools[NthEnabled(allTools, names, j)]
                       /\ \A j \in 1..Len(enabled) :
                            \E k \in 1..Len(allTools) : enabled[j] = allTools[k]

C9_Witness ==
    \E i \in Inv :
        /\ frame[i].pc = "buildPromptAndTools"
        /\ The(frame[i].agentConfig).enabledTools = Some(<<"Z", "B">>)
        /\ frame[i].allTools = Some(<<"A", "B">>)
        /\ frame[i].enabledTools = Some(<<"B">>)

(* A part the histogram counts: a tool part with a non-empty tool name *)
Counted(part) ==
    /\ part.isObject
    /\ part.type # None
    /\ The(part.type).kind = "string"
    /\ \/ The(part.type).val = DynamicTool
       \/ /\ Len(The(part.type).val) >= 5
          /\ \A k \in 1..5 : The(part.type).val[k] = ToolPrefix[k]
    /\ part.toolName # None
    /\ The(part.toolName).kind = "string"
    /\ The(part.toolName).val # ""
NameOf(part) == The(part.toolName).val

(* C10: usedTools lists each counted tool name exactly once, in the order   *)
(* of the names' first counted occurrences, with the number of counted      *)
(* parts of that name as its count; it is absent when no part is counted.   *)
C10_UsedToolsHistogram ==
    probe.log # None =>
        LET parts == partsOf(probe.assistantMessage)
            counted == {k \in 1..Len(parts) : Counted(parts[k])}
            first(name) ==
                CHOOSE k \in counted :
                    /\ NameOf(parts[k]) = name
                    /\ \A m \in counted : NameOf(parts[m]) = name => k <= m
            used == The(probe.log).usedTools
        IN  /\ used = None <=> counted = {}
            /\ used # None =>
                 LET u == The(used)
                 IN  /\ Len(u) > 0
                     /\ {u[a].name : a \in 1..Len(u)} =
                            {NameOf(parts[k]) : k \in counted}
                     /\ \A a, b \in 1..Len(u) :
                            a < b => /\ u[a].name # u[b].name
                                     /\ first(u[a].name) < first(u[b].name)
                     /\ \A a \in 1..Len(u) :
                            u[a].count =
                                Cardinality({k \in counted : NameOf(parts[k]) = u[a].name})

C10_Witness ==
    /\ probe.log # None
    /\ partsOf(probe.assistantMessage) =
           <<ToolPart("search"), ToolPart("calculator"), StaticToolPart("search")>>
    /\ The(probe.log).usedTools =
           Some(<<[name |-> "search", count |-> 2], [name |-> "calculator", count |-> 1]>>)

(* C11: the outcome has an output only when useStructuredOutput is true     *)
(* and a schema with at least one key was supplied. When the flag is false, *)
(* or the schema is absent or has no keys, no output constraint is          *)
(* attached to the agent, the schema is never normalised, the structured    *)
(* payload of the stream result is never requested and output is undefined. *)
StructuredOutputAsked(i) ==
    /\ frame[i].useStructuredOutput = TRUE
    /\ frame[i].outputSchema # None
    /\ The(frame[i].outputSchema) # {}

C11_OutputOnlyWhenStructured ==
    \A i \in Inv :
        /\ (Returned(i) /\ The(frame[i].outcome).output # None) =>
               StructuredOutputAsked(i)
        /\ (frame[i].pc # "idle" /\ ~StructuredOutputAsked(i)) =>
               /\ frame[i].outputOption = None
               /\ ~Called(i, "normalizeSchemaForStructuredOutput")
               /\ ~Called(i, "output")
               /\ frame[i].pc # "output"
               /\ frame[i].streamResult # None =>
                      ~The(frame[i].streamResult).constrained
               /\ Returned(i) => The(frame[i].outcome).output = None

(* A success with the flag set but an empty schema: no output was requested *)
C11_Witness ==
    \E i \in Inv :
        /\ Returned(i)
        /\ frame[i].useStructuredOutput = TRUE
        /\ frame[i].outputSchema = Some(EmptySchema)
        /\ The(frame[i].outcome).success
        /\ The(frame[i].outcome).output = None
        /\ Called(i, "usage")

(* C12: when the backend fails while the message stream is being read,     *)
(* some parts having been streamed or none, run returns success = false    *)
(* with an agentTrace; no usage, message or output and no tool histogram    *)
(* of the partial stream is in the outcome. The invocation ends without a   *)
(* StepOutcome only when the annotation of the catch block itself throws    *)
(* (the case of C13).                                                       *)
C12_MidStreamFailureDropsPartialStream ==
    \A i \in Inv :
        trail[i].failedAt = "readUIMessageStream" =>
            /\ frame[i].pc \in {"catch", "settled", "done", "raised"}
            /\ frame[i].streamResult = None /\ frame[i].assistantMessage = None
            /\ frame[i].thrown # None => "error" \in trail[i].traceFaults
            /\ Returned(i) =>
                 LET o == The(frame[i].outcome)
                 IN  /\ o.success = FALSE
                     /\ o.usage = None /\ o.message = None /\ o.output = None
                     /\ o.agentTrace # None
                     /\ The(o.agentTrace).usedTools = None

(* The stream threw after at least one snapshot and run returned *)
C12_Witness ==
    \E i \in Inv :
        /\ Returned(i)
        /\ trail[i].failedAt = "readUIMessageStream"
        /\ trail[i].partial
        /\ The(frame[i].outcome).success = FALSE
        /\ The(frame[i].outcome).agentTrace # None

(* C13: a failure of a tracing call (the span annotation of the metadata,   *)
(* paused, success or failure path) never makes run raise to its caller:    *)
(* no invocation in which an annotation threw ends with an exception.       *)
C13_AsStated ==
    \A i \in Inv :
        trail[i].traceFaults # {} => (~Raised(i) /\ frame[i].thrown = None)

(* The aggregates of a stream result, by the name of their read *)
AggregateReads == {"text", "usage", "output"}

(* the step reads an aggregate in invocation i *)
ReadsAggregate(i) ==
    \E k \in (Len(calls[i]) + 1)..Len(calls'[i]) : calls'[i][k] \in AggregateReads

(* the backend has produced everything it will produce on this stream *)
Exhausted(sr) ==
    sr.steps = CASE sr.script = Silent -> 0
                 [] sr.script = Endless -> StepBound
                 [] OTHER -> sr.script + 1

(* the accumulated message holds the parts produced so far, in their order *)
InProductionOrder(f) ==
    LET sr == The(f.streamResult)
    IN  partsOf(f.assistantMessage) = [k \in 1..sr.steps |-> StepPart(sr.script, k)]

(* C14: text, usage and the structured payload are read only after the      *)
(* message stream has been consumed to exhaustion (in that order); each     *)
(* snapshot extends the previous one by the next part produced, and no      *)
(* snapshot is observed once an aggregate has been read.                    *)
C14_AggregatesAfterExhaustion ==
    [][\A i \in Inv :
          /\ ReadsAggregate(i) =>
                /\ frame[i].streamResult # None
                /\ Exhausted(The(frame[i].streamResult))
                /\ InProductionOrder(frame[i])
                /\ frame'[i].assistantMessage \in {frame[i].assistantMessage, None}
          /\ (frame'[i].assistantMessage # None /\
              frame'[i].assistantMessage # frame[i].assistantMessage) =>
                /\ \A name \in AggregateReads : ~Called(i, name)
                /\ ~ReadsAggregate(i)
                /\ frame[i].streamResult # None /\ frame'[i].streamResult # None
                /\ ~Exhausted(The(frame[i].streamResult))
                /\ The(frame'[i].streamResult).steps =
                       The(frame[i].streamResult).steps + 1
                /\ InProductionOrder(frame[i])'
          /\ \A a, b \in 1..Len(calls'[i]) :
                /\ (calls'[i][a] = "stream" /\ calls'[i][b] \in AggregateReads) => a < b
                /\ (calls'[i][a] = "text" /\ calls'[i][b] \in {"usage", "output"}) => a < b
                /\ (calls'[i][a] = "usage" /\ calls'[i][b] = "output") => a < b
      ]_vars

(* All three aggregates were read after a stream of two snapshots *)
C14_Witness ==
    \E i \in Inv :
        /\ Returned(i)
        /\ Called(i, "text") /\ Called(i, "usage") /\ Called(i, "output")
        /\ frame[i].streamResult # None
        /\ The(frame[i].streamResult).script = 1
        /\ The(frame[i].streamResult).steps = 2
        /\ Len(partsOf(frame[i].assistantMessage)) = 2
        /\ The(frame[i].outcome).success

(* the number of calls of `name` logged in invocation i *)
TimesCalled(log, name) == Cardinality({k \in 1..Len(log) : log[k] = name})

(* C15: an invocation that passes validation generates exactly one session  *)
(* id, as its first act after validation and just before the span is        *)
(* opened; an invocation that fails validation generates none. The id       *)
(* never changes during the invocation, it is the id the span was opened    *)
(* with and the id the backend client tags its requests with, and it was    *)
(* never issued to an earlier invocation nor is it held by another one.     *)
C15_OneSessionIdPerInvocation ==
    [][\A i \in Inv :
          /\ frame'[i].sessionId # None <=> TimesCalled(calls'[i], "v4") = 1
          /\ frame'[i].sessionId = None <=> calls'[i] = <<>>
          /\ frame'[i].sessionId # None =>
                /\ Truthy(frame'[i].agentId) /\ Truthy(frame'[i].prompt)
                /\ calls'[i][1] = "v4" /\ calls'[i][2] = "trace"
                /\ TimesCalled(calls'[i], "trace") = 1
                /\ span'[i].sessionId = frame'[i].sessionId
                /\ frame'[i].litellm # None =>
                      The(frame'[i].litellm).sessionId = The(frame'[i].sessionId)
                /\ The(frame'[i].sessionId) <= nextSession'
                /\ \A j \in Inv \ {i} : frame'[j].sessionId # frame'[i].sessionId
          /\ (frame[i].sessionId # None /\ frame'[i].sessionId # None) =>
                frame'[i].sessionId = frame[i].sessionId
          /\ (frame[i].sessionId = None /\ frame'[i].sessionId # None) =>
                /\ frame[i].pc = "run"
                /\ span[i].opens = 0 /\ span'[i].opens = 1
                /\ The(frame'[i].sessionId) > nextSession
      ]_vars

(* The second invocation to pass validation holds the second id, in its     *)
(* span and in its backend client                                           *)
C15_Witness ==
    \E i \in Inv :
        /\ frame[i].sessionId = Some(2)
        /\ span[i].sessionId = Some(2)
        /\ frame[i].litellm # None
        /\ The(frame[i].litellm).sessionId = 2
        /\ Called(i, "stream")

RECURSIVE SumOfCounts(_)
SumOfCounts(u) == IF u = <<>> THEN 0 ELSE Head(u).count + SumOfCounts(Tail(u))

(* C18: a part is counted only if its type is a string that starts with     *)
(* "tool-" or equals "dynamic-tool" and its toolName is a non-empty string. *)
(* Every other part (null, no type, a type that is not a string or not a    *)
(* tool type, a tool type whose toolName is missing, not a string or empty) *)
(* is skipped: the log is the log of the message without those parts. The   *)
(* counts add up to the number of counted parts, every listed name is the   *)
(* name of a counted part, and an undefined message or a message without    *)
(* parts has no usedTools.                                                  *)
C18_OnlyNamedToolPartsCounted ==
    probe.log # None =>
        LET parts == partsOf(probe.assistantMessage)
            counted == {k \in 1..Len(parts) : Counted(parts[k])}
            used == The(probe.log).usedTools
            u == IF used = None THEN <<>> ELSE The(used)
        IN  /\ SumOfCounts(u) = Cardinality(counted)
            /\ \A a \in 1..Len(u) :
                  /\ u[a].count >= 1
                  /\ \E k \in counted : NameOf(parts[k]) = u[a].name
            /\ \A k \in counted : \E a \in 1..Len(u) : u[a].name = NameOf(parts[k])
            /\ used = buildAgentDecisionLog(
                         probe.enabledTools,
                         Some(Message(SelectSeq(parts, Counted))),
                         probe.modelId, probe.modelName, probe.baseUrl).usedTools
            /\ (probe.assistantMessage = None \/ The(probe.assistantMessage).parts = None
                  \/ parts = <<>>) => used = None
            /\ The(probe.log).enabledTools = probe.enabledTools

(* One counted part between a null part and a tool part with an empty name *)
C18_Witness ==
    /\ probe.log # None
    /\ partsOf(probe.assistantMessage) =
           <<NullPart, ToolPart("calculator"), Part(Some(Str(DynamicTool)), Some(Str("")))>>
    /\ The(probe.log).usedTools = Some(<<[name |-> "calculator", count |-> 1]>>)

(* the last snapshot the message stream of invocation i yielded, if any *)
LastSnapshot(i) ==
    LET sr == The(frame[i].streamResult)
    IN  IF sr.steps = 0 THEN None
        ELSE Some(Message([k \in 1..sr.steps |-> StepPart(sr.script, k)]))

(* C19: on the success path the outcome's message is the last snapshot of   *)
(* the message stream (undefined if there was none), usedTools is the       *)
(* histogram of that snapshot, and the step count of the success            *)
(* annotation is the number of its parts (0 when there is none).            *)
C19_SuccessReportsLastSnapshot ==
    \A i \in Inv :
        (Returned(i) /\ The(frame[i].outcome).success) =>
            LET o == The(frame[i].outcome)
                last == span[i].annotations[Len(span[i].annotations)]
            IN  /\ frame[i].streamResult # None
                /\ Exhausted(The(frame[i].streamResult))
                /\ o.message = LastSnapshot(i)
                /\ o.agentTrace # None
                /\ The(o.agentTrace).usedTools = usedToolsOf(toolCallCounts(LastSnapshot(i)))
                /\ Len(span[i].annotations) > 0
                /\ last.kind = "success"
                /\ last.stepCount = Len(partsOf(LastSnapshot(i)))
                /\ LastSnapshot(i) = None => (last.stepCount = 0 /\
                                              The(o.agentTrace).usedTools = None)

(* A success after one tool call and the final answer *)
C19_Witness ==
    \E i \in Inv :
        /\ Returned(i)
        /\ The(frame[i].outcome).success
        /\ The(frame[i].outcome).message = Some(Message(<<ToolPart("search"), TextPart>>))
        /\ The(The(frame[i].outcome).agentTrace).usedTools =
               Some(<<[name |-> "search", count |-> 1]>>)
        /\ span[i].annotations[Len(span[i].annotations)].stepCount = 2

(* A success of a stream that yielded no snapshot *)
SuccessWithoutSnapshot ==
    \E i \in Inv :
        /\ Returned(i)
        /\ The(frame[i].outcome).success
        /\ The(frame[i].outcome).message = None
        /\ span[i].annotations[Len(span[i].annotations)].stepCount = 0

(* run refused the invocation as paused *)
Refused(i) ==
    \/ \E k \in 1..Len(span[i].annotations) : span[i].annotations[k].kind = "paused"
    \/ frame[i].outcome # None /\ The(frame[i].outcome).response = PausedResponse

(* the tool listing and the metadata annotation went through *)
PastPausedCheck(i) ==
    /\ trail[i].agentLive # None
    /\ Called(i, "getAvailableToolsMetadata")
    /\ trail[i].failedAt # "getAvailableToolsMetadata"
    /\ trail[i].traceFaults \cap {"metadata", "paused"} = {}

(* C20: the paused refusal is taken only when a workspace id is supplied,   *)
(* it is a production workspace id and the agent's live flag is not true.   *)
(* A non-live agent with no workspace id or with a non-production one is    *)
(* not refused and goes on to the prompt/tool build and the model backend;  *)
(* a live agent is never refused.                                           *)
C20_PausedOnlyForNonLiveInProduction ==
    \A i \in Inv :
        /\ Refused(i) =>
              /\ frame[i].appId # UndefStr /\ frame[i].appId # ""
              /\ frame[i].appId = ProdAppId
              /\ trail[i].agentLive # None
              /\ The(trail[i].agentLive) # Some(TRUE)
              /\ NoBackendCall(i)
        /\ (PastPausedCheck(i) /\
            (The(trail[i].agentLive) = Some(TRUE) \/ frame[i].appId # ProdAppId)) =>
              /\ ~Refused(i)
              /\ Called(i, "buildPromptAndTools") \/ frame[i].pc = "buildPromptAndTools"
              /\ (trail[i].failedAt # "buildPromptAndTools" /\ frame[i].pc # "buildPromptAndTools")
                    => (Called(i, "getLiteLLMModelConfigOrThrow")
                        \/ frame[i].pc = "getLiteLLMModelConfigOrThrow")

(* An agent that is not live streams in a development workspace *)
C20_Witness ==
    \E i \in Inv :
        /\ trail[i].agentLive = Some(Some(FALSE))
        /\ frame[i].appId = DevAppId
        /\ Called(i, "stream")
        /\ Returned(i)
        /\ The(frame[i].outcome).success

(* An agent that is not live streams when no workspace id is supplied *)
NonLiveWithoutWorkspaceStreams ==
    \E i \in Inv :
        /\ trail[i].agentLive # None /\ The(trail[i].agentLive) # Some(TRUE)
        /\ frame[i].appId = UndefStr
        /\ Called(i, "stream")

(* The outcome of an invocation that runs alone with inputs f and is given  *)
(* the collaborator answers ans                                             *)
SoloOutcome(f, ans) ==
    IF ~Truthy(f.agentId) THEN Outcome(FALSE, NoAgentResponse, None, None, None, None)
    ELSE IF ~Truthy(f.prompt) THEN Outcome(FALSE, NoPromptResponse, None, None, None, None)
    ELSE
    LET tools == IF ans.allTools = None THEN None
                 ELSE Some(filterEnabled(The(ans.allTools),
                                         The(ans.agentConfig).enabledTools))
        m == IF ans.model = None
             THEN [modelId |-> UndefStr, modelName |-> UndefStr, baseUrl |-> UndefStr]
             ELSE The(ans.model)
        paused == /\ ans.allTools # None
                  /\ f.appId = ProdAppId
                  /\ The(ans.agentConfig).live # Some(TRUE)
        script == The(ans.script)
        n == CASE script = Silent -> 0
               [] script = Endless -> StepBound
               [] OTHER -> script + 1
        sr == [script |-> script, steps |-> n]
        message == IF n = 0 THEN None
                   ELSE Some(Message([k \in 1..n |-> StepPart(script, k)]))
        asked == f.useStructuredOutput /\ f.outputSchema # None
                    /\ The(f.outputSchema) # {}
    IN  IF ans.error # None
        THEN Outcome(FALSE, getError(The(ans.error)), None, None, None,
                     Some(buildAgentDecisionLog(tools, None, m.modelId, m.modelName,
                                                m.baseUrl)))
        ELSE IF paused
        THEN Outcome(FALSE, PausedResponse, None, None, None, None)
        ELSE Outcome(TRUE, TextOf(sr), Some(UsageOf(sr)), message,
                     IF asked THEN Some(OutputOf(sr)) ELSE None,
                     Some(buildAgentDecisionLog(tools, message, m.modelId, m.modelName,
                                                m.baseUrl)))

(* what invocation i holds is its own: made from its inputs and the answers *)
(* it was given                                                             *)
HoldsItsOwn(i) ==
    LET f == frame[i]
        ans == trail[i].answers
    IN  /\ f.enabledTools # None =>
              /\ ans.allTools # None
              /\ f.enabledTools = Some(filterEnabled(The(ans.allTools),
                                                     The(ans.agentConfig).enabledTools))
        /\ IF ans.model = None
           THEN f.modelId = UndefStr /\ f.modelName = UndefStr /\ f.baseUrl = UndefStr
           ELSE /\ f.modelId = The(ans.model).modelId
                /\ f.modelName = The(ans.model).modelName
                /\ f.baseUrl = The(ans.model).baseUrl
        /\ f.sessionId # None =>
              /\ span[i].sessionId = f.sessionId
              /\ f.litellm # None => The(f.litellm).sessionId = The(f.sessionId)
              /\ \A j \in Inv \ {i} : frame[j].sessionId # f.sessionId
        /\ f.streamResult # None =>
              /\ The(f.streamResult).script = The(ans.script)
              /\ InProductionOrder(f)
              /\ The(f.streamResult).constrained = (f.outputOption # None)
        /\ f.outputOption # None => StructuredOutputAsked(i)
        /\ f.pc \in {"stream", "readUIMessageStream", "text", "usage", "output"} =>
              (f.outputOption # None <=> StructuredOutputAsked(i))
        /\ Returned(i) => The(f.outcome) = SoloOutcome(f, ans)

(* the part of the state that belongs to invocation i *)
Own(i) == <<frame[i], span[i], calls[i], trail[i]>>

(* C16: when two invocations are interleaved at every await, the outcome   *)
(* of each is the outcome it produces alone with the same inputs and the    *)
(* same collaborator answers; enabledTools, the model identity, the session *)
(* id, the accumulated message and the output constraint each invocation    *)
(* holds are its own, and a step of one invocation changes nothing of the   *)
(* other.                                                                   *)
C16_InterleavedInvocationsAreIsolated ==
    [][\A i \in Inv :
          /\ HoldsItsOwn(i)'
          /\ Own(i)' # Own(i) => \A j \in Inv \ {i} : Own(j)' = Own(j)
      ]_vars

(* The invocation that started second has returned a success while the     *)
(* first is still reading its aggregates, with other tools, another model   *)
(* and another message                                                      *)
C16_Witness ==
    \E i, j \in Pair :
        /\ frame[i].sessionId = Some(2) /\ frame[j].sessionId = Some(1)
        /\ Returned(i) /\ The(frame[i].outcome).success
        /\ frame[j].pc = "usage"
        /\ frame[i].enabledTools # frame[j].enabledTools
        /\ frame[i].modelId # frame[j].modelId
        /\ frame[i].assistantMessage # frame[j].assistantMessage
        /\ frame[i].outputOption # frame[j].outputOption

(* the inputs run() was called with *)
InputsOf(i) ==
    <<frame[i].agentId, frame[i].prompt, frame[i].useStructuredOutput,
      frame[i].outputSchema, frame[i].appId>>

(* the usedTools of an outcome, absent when it has no trace *)
UsedToolsOfOutcome(o) ==
    IF o.agentTrace = None THEN None ELSE The(o.agentTrace).usedTools

(* invocation j was called after invocation i had returned, with the same   *)
(* inputs, and the collaborators answered both alike                        *)
SequentialTwins(i, j) ==
    /\ i \in trail[j].after
    /\ Returned(i) /\ Returned(j)
    /\ InputsOf(i) = InputsOf(j)
    /\ trail[i].answers = trail[j].answers

(* C17: with collaborators that answer alike, two invocations made one     *)
(* after the other with identical inputs return the same success flag and   *)
(* the same usedTools histogram.                                            *)
C17_SequentialTwinsAgree ==
    \A i, j \in Inv :
        SequentialTwins(i, j) =>
            /\ The(frame[i].outcome).success = The(frame[j].outcome).success
            /\ UsedToolsOfOutcome(The(frame[i].outcome)) =
                   UsedToolsOfOutcome(The(frame[j].outcome))

(* Two successes in a row with the same one-call histogram *)
C17_Witness ==
    \E i, j \in Inv :
        /\ SequentialTwins(i, j)
        /\ The(frame[j].outcome).success
        /\ UsedToolsOfOutcome(The(frame[i].outcome)) =
               Some(<<[name |-> "search", count |-> 1]>>)
        /\ UsedToolsOfOutcome(The(frame[j].outcome)) =
               Some(<<[name |-> "search", count |-> 1]>>)

====
